---- MODULE Spec2Model ----
(***************************************************************************)
(* The tape-machine language of src/main.rs: its parser `parse` and its    *)
(* three engines, the interpreter `run`, the baseline compiler `jit` and    *)
(* the caching compiler `jit2`.                                             *)
(* Machine words are scaled from 64 bits down to WordBits bits              *)
(* and the tape from 65536 cells down to TapeSize cells; arithmetic wraps   *)
(* at the word width as in a release build.  Generated native code is a     *)
(* sequence of instruction records that NativeStep executes one at a time.  *)
(***************************************************************************)
EXTENDS Integers, Sequences, FiniteSets, TLC

\* ---------------------------------------------------------------- bounds
WordBits  == 5      \* width of isize / usize in the model
TapeSize  == 6      \* number of tape cells ([0; 0x10000] in the source)
MaxLen    == 2      \* programs of every length up to MaxLen are enumerated
MaxOut    == 3      \* a run is followed until it has made MaxOut sink calls
MaxMisses == 7      \* loads emitted by a sequence of load_tape calls
MaxLines  == 2      \* instructions of a program file written one per line
MaxBytes  == 5      \* length of a program file of arbitrary bytes

Word == 2 ^ WordBits
Half == Word \div 2

\* isize arithmetic that saturates instead of wrapping
WrapSaturating(x) == IF x >= Half THEN Half - 1 ELSE IF x < -Half THEN -Half ELSE x

\* isize arithmetic wraps to [-Half, Half).
Wrap(x) == ((x + Half) % Word) - Half
\* `x as usize`
AsUsize(x) == x % Word
\* `(a * 8).try_into().unwrap()` to an i32 displacement, and i32::try_from(b):
\* the 32-bit range is a quarter of the model's word range.
FitsI32(x) == -(Half \div 2) <= x /\ x < Half \div 2
\* an index the tape holds: `a as usize` < tape.len()
InTape(a) == 0 <= a /\ a < TapeSize

\* The first address past the tape; its displacement still fits an i32
\* (as 70000 * 8 does in the source).
Oob == TapeSize

\* ------------------------------------------------------------- programs
SetV(a, b) == [k |-> "SetV", a |-> a, b |-> b]
SetA(a, b) == [k |-> "SetA", a |-> a, b |-> b]
JmpV(a, b) == [k |-> "JmpV", a |-> a, b |-> b]
JmpA(a, b) == [k |-> "JmpA", a |-> a, b |-> b]

IsSet(op) == op.k \in {"SetV", "SetA"}

Ops ==
    {SetV(0, 1), SetV(1, 1), SetV(1, 2), SetV(Oob, 1), SetV(1, Half - 1)}
    \cup {SetA(0, 1), SetA(1, 1), SetA(1, 0), SetA(1, Oob), SetA(-1, 1)}
    \cup {JmpV(a, b) : a \in {0, 1, 2}, b \in {-3, -2, -1, 1}}
    \cup {JmpA(0, 1), JmpA(1, Oob)}

\* the loop of two instructions: 5`+3 then +5`+-1
LoopProg == <<SetV(5, 3), JmpV(5, -1)>>

\* six Sets on six cells, the first of them the output port
SpillProg ==
    <<SetV(0, 1), SetV(1, 1), SetV(2, 1), SetV(3, 1), SetV(4, 1), SetV(5, 1)>>

\* a branch over the load of cell 0, whose register is spilled later
SkipProg ==
    <<SetV(1, 1), JmpV(2, -4), SetV(0, 1), SetV(3, 1), SetV(4, 1),
      SetV(5, 1), SetV(1, 1), SetV(2, 1)>>

\* a Set, then branches on five other cells
EvictProg ==
    <<SetV(1, 1), JmpV(2, -2), JmpV(3, -2), JmpV(4, -2), JmpV(5, -2),
      JmpV(0, -2)>>

Extras == {LoopProg, SpillProg, SkipProg, EvictProg}

Programs ==
    UNION {[1..n -> Ops] : n \in 0..MaxLen} \cup Extras

Modes == {"interpreter", "jit", "jit2"}

\* ------------------------------------------------------------ registers
CacheRegs == <<"r12", "r13", "r14", "r15", "rbp">>
Regs == {"rdi", "rax", "r12", "r13", "r14", "r15", "rbp"}

\* what memory outside the tape, or a register the callee may clobber, holds
JunkVals == {-1, 0, 3}
\* the tape's base address, which the caller passes in rdi
TapeBases == {8, -8}

Ins(op, r, s, n) == [op |-> op, r |-> r, s |-> s, n |-> n]

ZeroTape == [c \in 0..(TapeSize - 1) |-> 0]
NoMap == [x \in {} |-> 0]

\* ---------------------------------------------------------------- parser
\* the bytes of a program file, one character each
DigitChar == <<"0", "1", "2", "3", "4", "5", "6", "7", "8", "9">>
DigitVal == [c \in {DigitChar[d] : d \in 1..10} |->
                CHOOSE d \in 0..9 : DigitChar[d + 1] = c]
IsDigit(c) == c \in DOMAIN DigitVal
\* the grave accent, b'`', which a string of the model cannot hold
Grave == "grave"

\* the loop of parse_int: digits are taken from the front of what is left
\* of the file, n *= 10; n += digit, in isize arithmetic
RECURSIVE Digits(_, _)
Digits(code, n) ==
    IF code = <<>> \/ ~IsDigit(Head(code))
    THEN [n |-> n, rest |-> code]
    ELSE Digits(Tail(code), Wrap(Wrap(n * 10) + DigitVal[Head(code)]))

\* parse_int taking `-` for a separator, never for a sign
ParseIntUnsigned(code) == Digits(code, 0)

\* parse_int: an optional `-`, then digits; it returns Ok in every case
ParseInt(code) ==
    LET inv == code # <<>> /\ Head(code) = "-"
        d == Digits(IF inv THEN Tail(code) ELSE code, 0)
    IN  [n |-> IF inv THEN Wrap(-d.n) ELSE d.n, rest |-> d.rest]

\* code.pop() != Some(b'`')
NoGrave(code) == code = <<>> \/ Head(code) # Grave

\* what is left once code.pop() has taken a byte, if there was one
Popped(code) == IF code = <<>> THEN <<>> ELSE Tail(code)

\* the byte begins an instruction: `+`, `-` or a digit
Starts(b) == b = "+" \/ b = "-" \/ IsDigit(b)

\* One turn of `while let Some(b) = code.pop()` on the bytes left: the Ops
\* pushed, what is left afterwards, and what was left after the first integer
\* when the turn parsed one.
ParseTurn(code) ==
    LET b == Head(code)
        branch == b = "+"
        a == ParseInt(IF branch THEN Tail(code) ELSE code)
        after == Popped(a.rest)
        addr == after = <<>> \/ Head(after) # "+"
        second == ParseInt(IF addr THEN after ELSE Tail(after))
        kind == IF branch THEN (IF addr THEN "JmpA" ELSE "JmpV")
                ELSE (IF addr THEN "SetA" ELSE "SetV")
    IN  IF ~Starts(b)
        THEN [ops |-> <<>>, rest |-> Tail(code), int |-> <<>>, cut |-> FALSE]
        ELSE IF NoGrave(a.rest)
        THEN [ops |-> <<>>, rest |-> after, int |-> a.rest, cut |-> TRUE]
        ELSE [ops |-> <<[k |-> kind, a |-> a.n, b |-> second.n]>>,
              rest |-> second.rest, int |-> a.rest, cut |-> FALSE]

\* parse(code): the Ops of the whole buffer
RECURSIVE ParseAll(_)
ParseAll(code) ==
    IF code = <<>> THEN <<>>
    ELSE LET t == ParseTurn(code) IN t.ops \o ParseAll(t.rest)

\* a number in decimal
RECURSIVE Dec(_)
Dec(n) ==
    IF n < 10 THEN <<DigitChar[n + 1]>>
    ELSE Dec(n \div 10) \o <<DigitChar[(n % 10) + 1]>>
Decimal(n) == IF n < 0 THEN <<"-">> \o Dec(-n) ELSE Dec(n)

\* an instruction in the syntax of the instruction table
Line(op) ==
    (IF op.k \in {"JmpV", "JmpA"} THEN <<"+">> ELSE <<>>)
    \o Decimal(op.a) \o <<Grave>>
    \o (IF op.k \in {"SetV", "JmpV"} THEN <<"+">> ELSE <<>>)
    \o Decimal(op.b) \o <<"\n">>

\* a program written one instruction per line
RECURSIVE Unparse(_)
Unparse(ops) ==
    IF ops = <<>> THEN <<>> ELSE Line(Head(ops)) \o Unparse(Tail(ops))

\* program files: programs of every kind of instruction written one per
\* line, and every buffer of up to MaxBytes bytes
ParseVals == {-Half, 0, Half - 1}
LineOps == {[k |-> kind, a |-> a, b |-> b] :
               kind \in {"SetV", "SetA", "JmpV", "JmpA"},
               a \in ParseVals, b \in ParseVals}
LinePrograms == UNION {[1..n -> LineOps] : n \in 0..MaxLines}
Bytes == {"+", "-", "1", "2", Grave, "x"}
Files ==
    {Unparse(p) : p \in LinePrograms}
    \cup UNION {[1..n -> Bytes] : n \in 0..MaxBytes}

VARIABLES
    file,       \* the bytes main read from the program file
    text,       \* parse: the bytes not yet consumed
    prog,       \* the parsed program, Vec<Op>
    mode,       \* main's mode argument
    status,     \* "compiling", "running", "halted", "panic", "crash"
    i,          \* run: the instruction pointer; jit, jit2: the loop index
    v,          \* run: the last assigned value
    tape,       \* the cells
    out,        \* the values print was called with, in order
    seen,       \* what cell 0 held at each call of print
    wild,       \* memory outside the tape has been read or written
    code,       \* the native instructions emitted
    labels,     \* label index -> offset bound in code (0: unbound)
    tape2reg, reg2tape, regqueue, last_reg,   \* jit2's compile-time cache
    pc,         \* offset of the next native instruction
    regs,       \* the machine registers
    zf,         \* the zero flag
    ret         \* the last load_tape call: its argument and result

vars == <<file, text, prog, mode, status, i, v, tape, out, seen, wild, code, labels,
          tape2reg, reg2tape, regqueue, last_reg, pc, regs, zf, ret>>

parseVars == <<file, text>>
runVars == <<i, v>>
genVars == <<code, labels, tape2reg, reg2tape, regqueue, last_reg>>
cpuVars == <<pc, regs, zf>>

\* ------------------------------------------------------------- start-up
\* The registers on entry to the generated function f(tape): rdi holds the
\* tape's address, and what the caller left in the callee-saved registers
\* that jit2 uses for its cache is unknown.  run uses no register.
EntryRegs(m) ==
    CASE m = "interpreter" -> {[r \in Regs |-> 0]}
      [] m = "jit" ->
            {[r \in Regs |-> IF r = "rdi" THEN base ELSE 0] : base \in TapeBases}
      [] m = "jit2" ->
            {[r \in Regs |-> IF r \in {"rdi", "rax"} THEN 0 ELSE j] : j \in JunkVals}

\* main: the file is parsed and one engine is entered.  run starts with
\* i = 0, v = 0 and a zeroed tape; jit and jit2 allocate one label per
\* instruction and emit their prologue before lowering anything, and the
\* generated function is later entered with the tape's address in rdi.
Init ==
    /\ prog \in Programs
    /\ file = Unparse(prog)
    /\ text = <<>>
    /\ mode \in Modes
    /\ status = IF mode = "interpreter" THEN "running" ELSE "compiling"
    /\ i = 0
    /\ v = 0
    /\ tape = ZeroTape
    /\ out = <<>>
    /\ seen = <<>>
    /\ wild = FALSE
    /\ code = IF mode = "interpreter" THEN <<>> ELSE <<Ins("enter", "", "", 0)>>
    /\ labels = [n \in 1..Len(prog) |-> 0]
    /\ tape2reg = NoMap
    /\ reg2tape = NoMap
    /\ regqueue = CacheRegs
    /\ last_reg = "None"
    /\ pc = 0
    /\ regs \in EntryRegs(mode)
    /\ zf = FALSE
    /\ ret = <<>>

\* ---------------------------------------------------------- interpreter
\* The state of run as a record, so that one iteration is a function.
RunState == [i |-> i, v |-> v, tape |-> tape, out |-> out, seen |-> seen,
             wild |-> wild]

\* print(v): one call of the Output Sink; cell 0 is what the tape holds then.
print(st, val) ==
    [st EXCEPT !.out = Append(@, val), !.seen = Append(@, st.tape[0])]

\* *tape.get_unchecked(a as usize): outside the tape the read is undefined
\* and yields rd.
Peek(st, a, rd) == IF InTape(a) THEN st.tape[a] ELSE rd

\* the loop condition stopping one instruction early
InRangeShort(p, ops) == p + 1 < Len(ops)

\* ops.get(i) is Some
InRange(p, ops) == p < Len(ops)

\* RunSet forgetting `v = tape[a]`
RunSetKeepsV(st, a, b, rd) ==
    LET new == Wrap(Peek(st, a, rd) + b)
        st1 == [st EXCEPT
                  !.tape = IF InTape(a) THEN [@ EXCEPT ![a] = new] ELSE @,
                  !.wild = @ \/ ~InTape(a)]
    IN  IF a = 0 THEN print(st1, new) ELSE st1

\* lines 133-135: *tape[a] += b; v = tape[a]; (a == 0).then(|| print(v))
RunSet(st, a, b, rd) ==
    LET new == Wrap(Peek(st, a, rd) + b)
        st1 == [st EXCEPT
                  !.tape = IF InTape(a) THEN [@ EXCEPT ![a] = new] ELSE @,
                  !.wild = @ \/ ~InTape(a)]
        st2 == [st1 EXCEPT !.v = Peek(st1, a, new)]
    IN  IF a = 0 THEN print(st2, st2.v) ELSE st2

\* RunJmp branching when a == v, as the instruction table reads
RunJmpOnEqual(st, a, d) ==
    IF a = st.v THEN [st EXCEPT !.i = (@ + AsUsize(d) - 1) % Word] ELSE st

\* lines 121-124: if a != v { i += d as usize - 1 }, i already advanced
RunJmp(st, a, d) ==
    IF a # st.v THEN [st EXCEPT !.i = (@ + AsUsize(d) - 1) % Word] ELSE st

\* one iteration of the loop of run on instruction op
RunOp(st, op, rd) ==
    LET s1 == [st EXCEPT !.i = @ + 1] IN
    CASE op.k = "SetV" -> RunSet(s1, op.a, op.b, rd)
      [] op.k = "SetA" ->
            RunSet([s1 EXCEPT !.wild = @ \/ ~InTape(op.b)], op.a,
                   Peek(s1, op.b, rd), rd)
      [] op.k = "JmpV" -> RunJmp(s1, op.a, op.b)
      [] op.k = "JmpA" ->
            IF op.a # s1.v
            THEN RunJmp([s1 EXCEPT !.wild = @ \/ ~InTape(op.b)], op.a,
                        Peek(s1, op.b, rd))
            ELSE s1

\* the addresses an iteration dereferences
Derefs(op, val) ==
    CASE op.k = "SetV" -> {op.a}
      [] op.k = "SetA" -> {op.a, op.b}
      [] op.k = "JmpV" -> {}
      [] op.k = "JmpA" -> IF op.a # val THEN {op.b} ELSE {}

\* One iteration of `while let Some(op) = ops.get(i)`.  An unchecked access
\* outside the tape is undefined: it reads or writes whatever lies there, or
\* the process is killed.
RunStep ==
    /\ mode = "interpreter"
    /\ status = "running"
    /\ InRange(i, prog)
    /\ Len(out) < MaxOut
    /\ \/ \E rd \in JunkVals :
            LET st == RunOp(RunState, prog[i + 1], rd) IN
            /\ i' = st.i
            /\ v' = st.v
            /\ tape' = st.tape
            /\ out' = st.out
            /\ seen' = st.seen
            /\ wild' = st.wild
            /\ UNCHANGED status
       \/ /\ \E a \in Derefs(prog[i + 1], v) : ~InTape(a)
          /\ status' = "crash"
          /\ wild' = TRUE
          /\ i' = i + 1
          /\ UNCHANGED <<v, tape, out, seen>>
    /\ UNCHANGED <<prog, mode, ret>>
    /\ UNCHANGED parseVars
    /\ UNCHANGED genVars
    /\ UNCHANGED cpuVars

\* ops.get(i) is None: the loop and the run end.
RunExit ==
    /\ mode = "interpreter"
    /\ status = "running"
    /\ ~InRange(i, prog)
    /\ status' = "halted"
    /\ UNCHANGED <<prog, mode, tape, out, seen, wild, ret>>
    /\ UNCHANGED parseVars
    /\ UNCHANGED runVars
    /\ UNCHANGED genVars
    /\ UNCHANGED cpuVars

\* ------------------------------------------------------ baseline compiler
\* labels[i - b as usize - 2]: the index of the label a branch at index n
\* jumps to, in usize arithmetic
Target(n, b) == (n - AsUsize(b) - 2) % Word

\* ; mov rax, QWORD print as _ ; call rax
CallPrint == <<Ins("call", "", "", 0)>>

\* JmpA lowered to nothing instead of todo!()
JitJmpASkipped(op) == [ok |-> TRUE, ins |-> <<>>]

\* Op::JmpA(_a, _b) => todo!()
JitJmpA(op) == [ok |-> FALSE, ins |-> <<>>]

\* The native instructions jit emits for instruction op at index n of a
\* program of len instructions, after binding label n; ok is FALSE where an
\* unwrap, an index or todo!() panics.
JitLower(op, n, len) ==
    CASE op.k = "SetV" ->
            [ok |-> FitsI32(op.a),
             ins |-> <<Ins("movi", "rdi", "", op.b),
                       Ins("addm", "rdi", "", op.a),
                       Ins("st", "", "rdi", op.a)>>
                     \o (IF op.a = 0 THEN CallPrint ELSE <<>>)]
      [] op.k = "SetA" ->
            [ok |-> FitsI32(op.b) /\ FitsI32(op.a),
             ins |-> <<Ins("ld", "rdi", "", op.b),
                       Ins("addm", "rdi", "", op.a),
                       Ins("st", "", "rdi", op.a)>>
                     \o (IF op.a = 0 THEN CallPrint ELSE <<>>)]
      [] op.k = "JmpV" ->
            [ok |-> FitsI32(op.a) /\ Target(n, op.b) < len,
             ins |-> <<Ins("ld", "rax", "", op.a),
                       Ins("cmp", "rdi", "rax", 0),
                       Ins("jne", "", "", Target(n, op.b))>>]
      [] op.k = "JmpA" -> JitJmpA(op)

\* One turn of the loop of jit over the program.
JitStep ==
    /\ mode = "jit"
    /\ status = "compiling"
    /\ i < Len(prog)
    /\ LET lo == JitLower(prog[i + 1], i, Len(prog)) IN
          IF lo.ok
          THEN /\ labels' = [labels EXCEPT ![i + 1] = Len(code) + 1]
               /\ code' = code \o lo.ins
               /\ i' = i + 1
               /\ UNCHANGED status
          ELSE /\ status' = "panic"
               /\ UNCHANGED <<labels, code, i>>
    /\ UNCHANGED <<prog, mode, v, tape, out, seen, wild, ret>>
    /\ UNCHANGED parseVars
    /\ UNCHANGED <<tape2reg, reg2tape, regqueue, last_reg>>
    /\ UNCHANGED cpuVars

\* ------------------------------------------------------- caching compiler
\* the compile-time state of jit2 as a record
GenState == [tape2reg |-> tape2reg, reg2tape |-> reg2tape,
             regqueue |-> regqueue, last_reg |-> last_reg, code |-> code,
             labels |-> labels, ok |-> TRUE, r |-> "None"]

\* remove(&x) leaving the entry in the table
WithoutNothing(f, x) == f

\* HashMap::remove(&x)
Without(f, x) == [y \in DOMAIN f \ {x} |-> f[y]]

\* the register taken from the back of the queue, the most recently loaded
PopBackPush(q) == [r |-> q[Len(q)], q |-> q]

\* let r = regqueue.pop_front().unwrap(); regqueue.push_back(r);
PopPush(q) == [r |-> Head(q), q |-> Append(Tail(q), Head(q))]

\* load_tape reassigning a register without storing the cell it held
LoadTapeNoSpill(c, t) ==
    IF t \in DOMAIN c.tape2reg
    THEN [c EXCEPT !.r = c.tape2reg[t]]
    ELSE LET r == PopPush(c.regqueue).r
             held == r \in DOMAIN c.reg2tape
             old == IF held THEN c.reg2tape[r] ELSE 0
             r2t == IF held THEN Without(c.reg2tape, r) ELSE c.reg2tape
             t2r == IF held THEN Without(c.tape2reg, old) ELSE c.tape2reg
         IN  [c EXCEPT !.regqueue = PopPush(c.regqueue).q,
                       !.tape2reg = (t :> r) @@ t2r,
                       !.reg2tape = (r :> t) @@ r2t,
                       !.code = c.code \o <<Ins("ld", r, "", t)>>,
                       !.r = r]

\* load_tape(t): the register of cell t, loading the cell into the register
\* at the front of the queue when it is not cached.
LoadTape(c, t) ==
    IF t \in DOMAIN c.tape2reg
    THEN [c EXCEPT !.r = c.tape2reg[t]]
    ELSE LET r == PopPush(c.regqueue).r
             held == r \in DOMAIN c.reg2tape
             old == IF held THEN c.reg2tape[r] ELSE 0
             r2t == IF held THEN Without(c.reg2tape, r) ELSE c.reg2tape
             t2r == IF held THEN Without(c.tape2reg, old) ELSE c.tape2reg
             spill == IF held THEN <<Ins("st", "", r, old)>> ELSE <<>>
         IN  IF FitsI32(t)
             THEN [c EXCEPT !.regqueue = PopPush(c.regqueue).q,
                            !.tape2reg = (t :> r) @@ t2r,
                            !.reg2tape = (r :> t) @@ r2t,
                            !.code = c.code \o spill \o <<Ins("ld", r, "", t)>>,
                            !.r = r]
             ELSE [c EXCEPT !.ok = FALSE]

\* call_print: ; mov rdi, reg ; mov rax, QWORD print ; call rax
CallPrintReg(r) == <<Ins("mov", "rdi", r, 0)>> \o CallPrint

Bind(c, n) == [c EXCEPT !.labels[n + 1] = Len(c.code) + 1]
Emit(c, ins) == [c EXCEPT !.code = c.code \o ins]

\* a Set lowered without the store of its register to the tape
Jit2SetNoStore(c, op, n, add) ==
    LET c1 == LoadTape(Bind(c, n), op.a)
        r == c1.r
    IN  IF c1.ok /\ FitsI32(op.b)
        THEN [Emit(c1, <<Ins(add, r, "", op.b)>>
                       \o (IF op.a = 0 THEN CallPrintReg(r) ELSE <<>>))
                EXCEPT !.last_reg = r]
        ELSE [c1 EXCEPT !.ok = FALSE]

\* the lowering of a Set by jit2: the label, the cell's register, the add,
\* the store to the tape, the call when the cell is cell 0
Jit2Set(c, op, n, add) ==
    LET c1 == LoadTape(Bind(c, n), op.a)
        r == c1.r
        \* SetV: i32::try_from(b), else todo!(); SetA: (b * 8).try_into()
        fits == FitsI32(op.b)
    IN  IF c1.ok /\ fits
        THEN [Emit(c1, <<Ins(add, r, "", op.b), Ins("st", "", r, op.a)>>
                       \o (IF op.a = 0 THEN CallPrintReg(r) ELSE <<>>))
                EXCEPT !.last_reg = r]
        ELSE [c1 EXCEPT !.ok = FALSE]

\* the lowering of JmpV by jit2: the register of the compared cell is
\* loaded before the label is bound
Jit2Jmp(c, op, n, len) ==
    LET c1 == LoadTape(c, op.a)
        c2 == Bind(c1, n)
    IN  IF c1.ok /\ c.last_reg # "None" /\ Target(n, op.b) < len
        THEN Emit(c2, <<Ins("cmp", c1.r, c.last_reg, 0),
                        Ins("jne", "", "", Target(n, op.b))>>)
        ELSE [c1 EXCEPT !.ok = FALSE]

Jit2Lower(c, op, n, len) ==
    CASE op.k = "SetV" -> Jit2Set(c, op, n, "addi")
      [] op.k = "SetA" -> Jit2Set(c, op, n, "addm")
      [] op.k = "JmpV" -> Jit2Jmp(c, op, n, len)
      [] op.k = "JmpA" -> [c EXCEPT !.ok = FALSE]

\* One turn of the loop of jit2 over the program.
Jit2Step ==
    /\ mode = "jit2"
    /\ status = "compiling"
    /\ i < Len(prog)
    /\ LET c == Jit2Lower(GenState, prog[i + 1], i, Len(prog)) IN
          IF c.ok
          THEN /\ tape2reg' = c.tape2reg
               /\ reg2tape' = c.reg2tape
               /\ regqueue' = c.regqueue
               /\ last_reg' = c.last_reg
               /\ code' = c.code
               /\ labels' = c.labels
               /\ i' = i + 1
               /\ UNCHANGED status
          ELSE /\ status' = "panic"
               /\ UNCHANGED genVars
               /\ UNCHANGED i
    /\ UNCHANGED <<prog, mode, v, tape, out, seen, wild, ret>>
    /\ UNCHANGED parseVars
    /\ UNCHANGED cpuVars

\* After the loop both compilers emit the epilogue, finalize the buffer and
\* call the generated function on a zeroed tape.
Finish ==
    /\ mode \in {"jit", "jit2"}
    /\ status = "compiling"
    /\ i = Len(prog)
    /\ code' = Append(code, Ins("ret", "", "", 0))
    /\ status' = "running"
    /\ pc' = 1
    /\ UNCHANGED <<prog, mode, i, v, tape, out, seen, wild, ret, regs, zf>>
    /\ UNCHANGED parseVars
    /\ UNCHANGED <<labels, tape2reg, reg2tape, regqueue, last_reg>>

\* ------------------------------------------------------- generated code
\* the machine the generated function runs on
Cpu == [pc |-> pc, regs |-> regs, zf |-> zf, tape |-> tape, out |-> out,
        seen |-> seen, wild |-> wild, status |-> status]

\* QWORD [rbx + n * 8]: outside the tape the load yields rd
MemAt(m, n, rd) == IF InTape(n) THEN m.tape[n] ELSE rd

\* The effect of native instruction ins.  rd is what a load outside the
\* tape yields and what print leaves in the caller-saved rdi and rax.
Exec(m, ins, rd) ==
    LET step == [m EXCEPT !.pc = @ + 1] IN
    CASE ins.op = "enter" -> step
      [] ins.op = "movi" -> [step EXCEPT !.regs[ins.r] = ins.n]
      [] ins.op = "mov" -> [step EXCEPT !.regs[ins.r] = m.regs[ins.s]]
      [] ins.op = "ld" ->
            [step EXCEPT !.regs[ins.r] = MemAt(m, ins.n, rd),
                         !.wild = @ \/ ~InTape(ins.n)]
      [] ins.op = "addm" ->
            [step EXCEPT !.regs[ins.r] = Wrap(@ + MemAt(m, ins.n, rd)),
                         !.wild = @ \/ ~InTape(ins.n)]
      [] ins.op = "addi" -> [step EXCEPT !.regs[ins.r] = Wrap(@ + ins.n)]
      [] ins.op = "st" ->
            [step EXCEPT
               !.tape = IF InTape(ins.n)
                        THEN [@ EXCEPT ![ins.n] = m.regs[ins.s]] ELSE @,
               !.wild = @ \/ ~InTape(ins.n)]
      [] ins.op = "call" ->
            [step EXCEPT !.out = Append(@, m.regs["rdi"]),
                         !.seen = Append(@, m.tape[0]),
                         !.regs["rdi"] = rd,
                         !.regs["rax"] = rd]
      [] ins.op = "cmp" -> [step EXCEPT !.zf = (m.regs[ins.r] = m.regs[ins.s])]
      [] ins.op = "jne" ->
            IF m.zf THEN step ELSE [m EXCEPT !.pc = labels[ins.n + 1]]
      [] ins.op = "ret" -> [m EXCEPT !.status = "halted"]

TouchesMemory(ins) == ins.op \in {"ld", "addm", "st"}

\* the values an instruction can meet that the program does not determine
Unknowns(ins, rdi) ==
    IF ins.op = "call" THEN JunkVals \cup {rdi}
    ELSE IF TouchesMemory(ins) /\ ~InTape(ins.n) THEN JunkVals
    ELSE {0}

\* The generated function executes its next instruction.  An access outside
\* the tape reads or writes whatever lies there, or the process is killed.
NativeStep ==
    /\ mode \in {"jit", "jit2"}
    /\ status = "running"
    /\ Len(out) < MaxOut
    /\ \/ \E rd \in Unknowns(code[pc], regs["rdi"]) :
            LET m == Exec(Cpu, code[pc], rd) IN
            /\ pc' = m.pc
            /\ regs' = m.regs
            /\ zf' = m.zf
            /\ tape' = m.tape
            /\ out' = m.out
            /\ seen' = m.seen
            /\ wild' = m.wild
            /\ status' = m.status
       \/ /\ TouchesMemory(code[pc])
          /\ ~InTape(code[pc].n)
          /\ status' = "crash"
          /\ wild' = TRUE
          /\ UNCHANGED <<tape, out, seen>>
          /\ UNCHANGED cpuVars
    /\ UNCHANGED <<prog, mode, ret>>
    /\ UNCHANGED parseVars
    /\ UNCHANGED runVars
    /\ UNCHANGED genVars

Next ==
    \/ RunStep
    \/ RunExit
    \/ JitStep
    \/ Jit2Step
    \/ Finish
    \/ NativeStep

\* main with any program and any mode
Spec == Init /\ [][Next]_vars

\* ------------------------------------------------- the register cache alone
\* jit2 before its loop, with no program: the cache is driven by load_tape
\* calls on any cells, as the lowering of a sequence of instructions drives it.
InitLoad ==
    /\ Init
    /\ prog = <<>>
    /\ mode = "jit2"
    /\ regs = [r \in Regs |-> 0]

LoadCount(c) == Cardinality({n \in 1..Len(c) : c[n].op = "ld"})

\* one call load_tape(t)
LoadCell(t) ==
    /\ mode = "jit2"
    /\ status = "compiling"
    /\ t \in DOMAIN tape2reg \/ LoadCount(code) < MaxMisses
    /\ LET c == LoadTape(GenState, t) IN
          /\ c.ok
          /\ tape2reg' = c.tape2reg
          /\ reg2tape' = c.reg2tape
          /\ regqueue' = c.regqueue
          /\ code' = c.code
          /\ ret' = <<t, c.r>>
    /\ UNCHANGED <<prog, mode, status, tape, out, seen, wild, labels, last_reg>>
    /\ UNCHANGED parseVars
    /\ UNCHANGED runVars
    /\ UNCHANGED cpuVars

NextLoad == \E t \in 0..TapeSize : LoadCell(t)

SpecLoad == InitLoad /\ [][NextLoad]_vars

\* ------------------------------------------------------- the parser alone
\* main has read the file and calls parse on its bytes
InitParse ==
    /\ file \in Files
    /\ text = file
    /\ prog = <<>>
    /\ mode \in Modes
    /\ status = "parsing"
    /\ i = 0
    /\ v = 0
    /\ tape = ZeroTape
    /\ out = <<>>
    /\ seen = <<>>
    /\ wild = FALSE
    /\ code = <<>>
    /\ labels = <<>>
    /\ tape2reg = NoMap
    /\ reg2tape = NoMap
    /\ regqueue = CacheRegs
    /\ last_reg = "None"
    /\ pc = 0
    /\ regs = [r \in Regs |-> 0]
    /\ zf = FALSE
    /\ ret = <<>>

\* one turn of the loop of parse
ParseStep ==
    /\ status = "parsing"
    /\ text # <<>>
    /\ LET t == ParseTurn(text) IN
          /\ prog' = prog \o t.ops
          /\ text' = t.rest
    /\ UNCHANGED <<file, mode, status, tape, out, seen, wild, ret>>
    /\ UNCHANGED runVars
    /\ UNCHANGED genVars
    /\ UNCHANGED cpuVars

\* code.pop() is None: parse returns ops
ParseExit ==
    /\ status = "parsing"
    /\ text = <<>>
    /\ status' = "parsed"
    /\ UNCHANGED <<file, text, prog, mode, tape, out, seen, wild, ret>>
    /\ UNCHANGED runVars
    /\ UNCHANGED genVars
    /\ UNCHANGED cpuVars

NextParse == ParseStep \/ ParseExit

SpecParse == InitParse /\ [][NextParse]_vars

\* ------------------------------------------- a program written out and parsed
\* a Program is written to a file in the syntax of the instruction table,
\* and main reads the file and parses it
InitTrip ==
    /\ file = <<>>
    /\ mode = "interpreter"
    /\ InitParse

Write ==
    /\ status = "parsing"
    /\ file = <<>>
    /\ prog = <<>>
    /\ \E p \in LinePrograms :
          /\ file' = Unparse(p)
          /\ text' = file'
          /\ prog' = p
    /\ status' = "written"
    /\ UNCHANGED <<mode, tape, out, seen, wild, ret>>
    /\ UNCHANGED runVars
    /\ UNCHANGED genVars
    /\ UNCHANGED cpuVars

\* let f = parse(f): the whole of parse on the bytes of the file
Reparse ==
    /\ status = "written"
    /\ prog' = ParseAll(text)
    /\ text' = <<>>
    /\ status' = "parsed"
    /\ UNCHANGED <<file, mode, tape, out, seen, wild, ret>>
    /\ UNCHANGED runVars
    /\ UNCHANGED genVars
    /\ UNCHANGED cpuVars

NextTrip == Write \/ Reparse

SpecTrip == InitTrip /\ [][NextTrip]_vars

\* ------------------------------------------------------ the interpreter alone
InitRun == Init /\ mode = "interpreter"

NextRun == RunStep \/ RunExit

\* run keeps executing while its loop condition holds
SpecRun == InitRun /\ [][NextRun]_vars /\ WF_vars(NextRun)

\* ============================================================== claims
\* the whole run of the interpreter on ops, as many iterations as fuel allows
RECURSIVE RunFrom(_, _, _)
RunFrom(st, ops, fuel) ==
    IF ~InRange(st.i, ops) \/ fuel = 0 THEN st
    ELSE RunFrom(RunOp(st, ops[st.i + 1], 0), ops, fuel - 1)

RunOutput(ops) ==
    RunFrom([i |-> 0, v |-> 0, tape |-> ZeroTape, out |-> <<>>,
             seen |-> <<>>, wild |-> FALSE], ops, Len(ops) + 1)

\* where a taken branch at index n leads the interpreter
RunTarget(n, b) == (n + AsUsize(b)) % Word

\* the instructions control can pass to from index n, T giving branch targets
Flow(ops, n, T(_, _)) ==
    {n + 1} \cup (IF ops[n + 1].k = "JmpV" THEN {T(n, ops[n + 1].b)} ELSE {})

\* the number of predecessors of index t, the entry counting as one for 0
PredCount(ops, t, T(_, _)) ==
    Cardinality({n \in 0..(Len(ops) - 1) : t \in Flow(ops, n, T)})
    + (IF t = 0 THEN 1 ELSE 0)

SinglePred(ops, T(_, _)) ==
    \A n \in 0..(Len(ops) - 1) :
        ops[n + 1].k = "JmpV" /\ T(n, ops[n + 1].b) < Len(ops)
            => PredCount(ops, T(n, ops[n + 1].b), T) <= 1

NoJmpA(ops) == \A n \in 1..Len(ops) : ops[n].k # "JmpA"

\* every address the program names is a cell of the tape
AllInTape(ops) ==
    \A n \in 1..Len(ops) :
        /\ InTape(ops[n].a) \/ ops[n].k = "JmpA"
        /\ ops[n].k = "SetA" => InTape(ops[n].b)

\* C1: for a program with no BranchOnIndirect and no branch target that has
\* more than one predecessor (neither among the interpreter's targets nor
\* among the compilers' labels), a compiled run that returns has made the
\* same Output Sink calls, in the same order, as the interpreter makes.
C1_EnginesAgree ==
    (/\ mode \in {"jit", "jit2"}
     /\ status = "halted"
     /\ NoJmpA(prog)
     /\ AllInTape(prog)
     /\ SinglePred(prog, RunTarget)
     /\ SinglePred(prog, Target))
    => LET r == RunOutput(prog) IN
       r.i >= Len(prog) /\ out = r.out

\* the instruction the interpreter is about to execute
AtOp(kinds) ==
    /\ mode = "interpreter"
    /\ status = "running"
    /\ i < Len(prog)
    /\ prog[i + 1].k \in kinds

Addend(op) == IF op.k = "SetV" THEN op.b ELSE tape[op.b]

\* C3: the interpreter executing SetImmediate(a, imm) or SetIndirect(a, s)
\* on cells of the tape leaves in cell a its old value plus imm, or plus the
\* old value of cell s (also when s = a), wrapped to the word; V becomes the
\* new value of cell a, no other cell changes and P advances by 1.
C3_SetSemantics ==
    [][(/\ AtOp({"SetV", "SetA"})
        /\ InTape(prog[i + 1].a)
        /\ prog[i + 1].k = "SetA" => InTape(prog[i + 1].b))
       => LET op == prog[i + 1] IN
          /\ tape'[op.a] = Wrap(tape[op.a] + Addend(op))
          /\ v' = tape'[op.a]
          /\ \A c \in DOMAIN tape : c # op.a => tape'[c] = tape[c]
          /\ i' = i + 1]_vars

\* a cell has been added to itself
C3_Witness ==
    /\ mode = "interpreter"
    /\ i = 2
    /\ prog[1] = SetV(1, 2)
    /\ prog[2] = SetA(1, 1)
    /\ tape[1] = 4
    /\ v = 4

\* a sink call starts at offset p of the generated code, passing register r
SinkCallAt(p, r) ==
    \/ r = "rdi" /\ code[p].op = "call"
    \/ code[p] = Ins("mov", "rdi", r, 0) /\ code[p + 1].op = "call"

\* the call at offset p follows a store of its argument to cell 0
AfterStoreTo0(p) ==
    \/ code[p - 1] = Ins("st", "", "rdi", 0)
    \/ /\ code[p - 1].op = "mov"
       /\ code[p - 2] = Ins("st", "", code[p - 1].s, 0)

Native(opname) ==
    /\ mode \in {"jit", "jit2"}
    /\ status = "running"
    /\ code[pc].op = opname

\* C4: in every engine a write to tape address 0 triggers exactly one Output
\* Sink call, which carries the value the cell then holds and is made once
\* that value is in the tape; a write to another address triggers none.
C4_WriteToCell0Calls ==
    [][/\ out' # out =>
            out' = Append(out, tape'[0]) /\ seen' = Append(seen, tape'[0])
       /\ AtOp({"SetV", "SetA", "JmpV", "JmpA"}) /\ status' = "running" =>
            IF IsSet(prog[i + 1]) /\ prog[i + 1].a = 0
            THEN Len(out') = Len(out) + 1
            ELSE out' = out
       /\ Native("st") /\ code[pc].n = 0 => SinkCallAt(pc + 1, code[pc].s)
       /\ Native("call") => AfterStoreTo0(pc)]_vars

\* C5: the interpreter on the program 5`+3, +5`+-1 terminates: the
\* instruction pointer leaves [0, 2) and the run ends.
C5_LoopTerminates ==
    (prog = LoopProg) ~> (status = "halted" /\ ~(i < 2))

\* the loop has ended, cell 5 having reached the compared value
C5_Witness ==
    /\ prog = LoopProg
    /\ status = "halted"
    /\ i = 2
    /\ tape[5] = 5
    /\ v = 5

\* C6: an interpreter run starts with P = 0 on a zeroed tape; while P is in
\* [0, len) the run goes on with the instruction at P, the loop ends only
\* with P outside the range, and once P is outside no instruction is
\* executed and no Output Sink call is made: the run ends there, at once for
\* an empty program.  (A process killed by an access outside the tape, C7,
\* has status "crash": the loop has not ended.)
C6_RunEndsOutsideRange ==
    /\ mode = "interpreter" =>
          i = 0 /\ v = 0 /\ tape = ZeroTape /\ out = <<>> /\ status = "running"
    /\ [](mode = "interpreter" =>
            /\ status = "halted" => ~(i < Len(prog))
            /\ status = "running" /\ i < Len(prog) /\ Len(out) < MaxOut
                 => ENABLED RunStep)
    /\ [][mode = "interpreter" /\ ~(i < Len(prog)) =>
            /\ status' = "halted"
            /\ out' = out /\ tape' = tape /\ v' = v /\ i' = i]_vars
    /\ [][~(mode = "interpreter" /\ status = "halted")]_vars

\* a run that made a sink call and ended on a branch out of the program
C6_Witness ==
    /\ mode = "interpreter"
    /\ status = "halted"
    /\ i > Len(prog)
    /\ Len(out) = 1
    /\ ~wild

\* C7: no engine reads or writes memory outside the tape: a program that
\* names an address outside [0, TapeSize) is refused with an error.
C7_NoAccessOutsideTape == ~wild

\* C8: a program that holds a BranchOnIndirect makes jit and jit2 fail while
\* generating code, wherever the instruction stands: the loop never gets
\* past it, no generated code runs and no Output Sink call is made.
C8_JmpAFailsCompile ==
    (mode \in {"jit", "jit2"} /\ ~NoJmpA(prog)) =>
        /\ status \in {"compiling", "panic"}
        /\ status = "compiling" => \A n \in 1..i : prog[n].k # "JmpA"
        /\ pc = 0
        /\ out = <<>>

\* jit stopped at a BranchOnIndirect that follows a lowered instruction
C8_Witness ==
    /\ mode = "jit"
    /\ status = "panic"
    /\ i = 1
    /\ Len(code) > 1
    /\ prog[2].k = "JmpA"

\* the cells loaded by load_tape, in the order of their loads
RECURSIVE LoadsOf(_)
LoadsOf(c) ==
    IF c = <<>> THEN <<>>
    ELSE IF Head(c).op = "ld" THEN <<Head(c).n>> \o LoadsOf(Tail(c))
    ELSE LoadsOf(Tail(c))

\* the offset in c of its k-th load
RECURSIVE LoadAt(_, _, _)
LoadAt(c, k, p) ==
    IF c[p].op = "ld" THEN (IF k = 1 THEN p ELSE LoadAt(c, k - 1, p + 1))
    ELSE LoadAt(c, k, p + 1)

\* the k-th load is preceded by the spill of cell t from the same register
SpillsBefore(c, k, t) ==
    LET p == LoadAt(c, k, 1) IN c[p - 1] = Ins("st", "", c[p].r, t)

\* no spill precedes the k-th load
NoSpillBefore(c, k) == LET p == LoadAt(c, k, 1) IN c[p - 1].op # "st"

NumRegs == Len(CacheRegs)

\* C9: eviction follows the rotation of the five registers, whatever was
\* used last: the first five loads evict nothing, a load_tape call on a
\* cached cell evicts and emits nothing, and the k-th load after the fifth
\* evicts the cell of the k-th load.
C9_FifoEviction ==
    /\ [](\A k \in 1..LoadCount(code) :
            IF k <= NumRegs THEN NoSpillBefore(code, k)
            ELSE SpillsBefore(code, k, LoadsOf(code)[k - NumRegs]))
    /\ [][ret'[1] \in DOMAIN tape2reg =>
            /\ code' = code
            /\ tape2reg' = tape2reg
            /\ reg2tape' = reg2tape
            /\ regqueue' = regqueue
            /\ ret'[2] = tape2reg[ret'[1]]]_vars

\* seven cells were loaded and a cached one was asked for again
C9_Witness ==
    /\ LoadCount(code) = 7
    /\ SpillsBefore(code, 7, LoadsOf(code)[2])
    /\ ret # <<>>
    /\ ret[1] = LoadsOf(code)[4]

\* C10: V is zero before the first Set has executed: with the tape still
\* zeroed and no call made, the interpreter's v is 0, the register jit
\* compares with (rdi) and the register jit2 compares with (the last used
\* one) hold 0, and jit2 has a last used register to lower the branch with.
C10_VStartsAtZero ==
    /\ mode = "interpreter" /\ tape = ZeroTape /\ ~wild => v = 0
    /\ Native("cmp") /\ tape = ZeroTape /\ out = <<>> /\ ~wild =>
          regs[IF mode = "jit" THEN code[pc].r ELSE code[pc].s] = 0
    /\ (/\ mode = "jit2"
        /\ status = "panic"
        /\ prog[i + 1].k = "JmpV"
        /\ FitsI32(prog[i + 1].a)
        /\ Target(i, prog[i + 1].b) < Len(prog))
       => last_reg # "None"

\* the branch the generated code is about to decide
AtJne(n) ==
    /\ Native("jne")
    /\ n < Len(prog)
    /\ prog[n + 1].k = "JmpV"
    /\ pc = labels[n + 1] + (IF mode = "jit" THEN 2 ELSE 1)

\* C11: as the instruction table of the module documentation reads, the
\* branch +A`+B adds B to P exactly when cell A equals V and otherwise only
\* advances P: so in the interpreter, and in the code of both compilers the
\* jump is taken only when the compared cell and V were found equal.
C11_BranchAsDocumented ==
    [][/\ AtOp({"JmpV"}) /\ InTape(prog[i + 1].a) =>
            i' = IF tape[prog[i + 1].a] = v
                 THEN (i + prog[i + 1].b) % Word
                 ELSE i + 1
       /\ \A n \in 0..(Len(prog) - 1) :
            AtJne(n) /\ ~zf => pc' = pc + 1]_vars

\* C12: a Program written one instruction per line as a`+b, a`b, +a`+b or
\* +a`b, with signed decimal operands, parses to the same sequence of Ops with
\* the same operands.
C12_ParseRoundTrip ==
    [][status = "written" => prog' = prog]_vars

\* a program with the most negative operand and a branch came back
C12_Witness ==
    /\ status = "parsed"
    /\ Len(prog) = 2
    /\ prog[1] = SetA(-Half, -Half)
    /\ prog[2] = JmpV(Half - 1, -Half)
    /\ file = Unparse(prog)

\* C13: parse ends on every buffer, each turn consuming at least one byte
\* and none raising an error; and a fragment whose first integer is not
\* followed by a grave accent is dropped with scanning resuming right after
\* that integer, so that the Ops of everything after it are the Ops that
\* parsing the bytes after the integer gives.
C13_DiscardResumes ==
    [][status = "parsing" /\ text # <<>> =>
          /\ Len(text') < Len(text)
          /\ ParseTurn(text).cut =>
                /\ prog' = prog
                /\ ParseAll(text') = ParseAll(ParseTurn(text).int)]_vars

\* where the interpreter moves P when it takes the branch op at index n
InterpTarget(n, op) ==
    RunJmp([i |-> n + 1, v |-> Wrap(op.a + 1)], op.a, op.b).i

\* the jump emitted for the branch at index n
JneOf(n) == code[labels[n + 1] + (IF mode = "jit" THEN 2 ELSE 1)]

\* C14: the label both compilers jump to for a BranchOnImmediate(cmp, disp)
\* at index n, n - disp - 2 in word arithmetic, is the instruction index the
\* interpreter moves P to when it takes that branch.
C14_LabelIsInterpreterTarget ==
    mode \in {"jit", "jit2"} =>
        \A n \in 0..(i - 1) :
            (status \in {"compiling", "running"} /\ prog[n + 1].k = "JmpV") =>
                /\ JneOf(n).op = "jne"
                /\ JneOf(n).n = Target(n, prog[n + 1].b)
                /\ JneOf(n).n = InterpTarget(n, prog[n + 1])

\* the target cell of the last Set among the first n instructions
LastSetCell(ops, n) ==
    ops[CHOOSE m \in 1..n :
            IsSet(ops[m]) /\ \A k \in (m + 1)..n : ~IsSet(ops[k])].a

\* jit2 lowers the branch at index i
Jit2LowersJmp ==
    /\ mode = "jit2"
    /\ status = "compiling"
    /\ i < Len(prog)
    /\ prog[i + 1].k = "JmpV"
    /\ i' = i + 1

\* C15: when jit2 lowers a BranchOnImmediate, the last-used register it
\* compares with is still assigned, in reg2tape, to the target cell of the
\* most recent Set before the branch, also after the load_tape of the
\* branch's own compared cell.
C15_LastRegStillAssigned ==
    [][Jit2LowersJmp =>
          /\ code'[Len(code') - 1].op = "cmp"
          /\ code'[Len(code') - 1].s = last_reg
          /\ last_reg \in DOMAIN reg2tape'
          /\ reg2tape'[last_reg] = LastSetCell(prog, i)]_vars

\* a compiler lowers instruction i
Lowers ==
    /\ mode \in {"jit", "jit2"}
    /\ status = "compiling"
    /\ i < Len(prog)
    /\ i' = i + 1

\* C16: in both compilers one label per instruction exists, unbound, before
\* any lowering; a label is bound once, by the lowering of its instruction,
\* and never rebound; and every native instruction emitted for instruction i,
\* spills and loads of load_tape included, lies after the binding of label i
\* (and so before that of label i + 1): label i is the offset the code had
\* reached when the lowering of instruction i began.
C16_LabelsBracketLowering ==
    /\ (mode \in {"jit", "jit2"} /\ status = "compiling" /\ i = 0) =>
          /\ DOMAIN labels = 1..Len(prog)
          /\ \A n \in 1..Len(prog) : labels[n] = 0
    /\ [][Lowers =>
            /\ labels[i + 1] = 0
            /\ labels'[i + 1] = Len(code) + 1
            /\ \A n \in 1..Len(prog) : n # i + 1 => labels'[n] = labels[n]
            /\ \A p \in 1..Len(code) : code'[p] = code[p]]_vars

\* the register at the front of the queue, which a miss takes
Front == Head(regqueue)

\* C17: load_tape(addr) emits nothing when addr is cached, leaving tables and
\* queue as they are; on a miss it takes the register at the front of the
\* queue and emits one load of addr into it, preceded, when that register
\* holds a cell, by one store of the register to that cell's slot and by
\* nothing otherwise; after a miss the register is at the back of the queue
\* and the two tables map addr and the register to each other.
C17_LoadCellEmission ==
    [][ret' # ret \/ code' # code =>
         LET t == ret'[1]
             r == ret'[2]
         IN  IF t \in DOMAIN tape2reg
             THEN /\ code' = code
                  /\ r = tape2reg[t]
                  /\ <<tape2reg', reg2tape', regqueue'>>
                       = <<tape2reg, reg2tape, regqueue>>
             ELSE /\ r = Front
                  /\ code' = code
                       \o (IF Front \in DOMAIN reg2tape
                           THEN <<Ins("st", "", Front, reg2tape[Front])>>
                           ELSE <<>>)
                       \o <<Ins("ld", Front, "", t)>>
                  /\ regqueue'[Len(regqueue')] = r
                  /\ Tail(regqueue) = SubSeq(regqueue', 1, Len(regqueue) - 1)
                  /\ tape2reg'[t] = r
                  /\ reg2tape'[r] = t]_vars

\* a miss that spilled: the code ends with the store of the evicted cell and
\* the load of the new one
C17_Witness ==
    /\ LoadCount(code) = NumRegs + 1
    /\ code[Len(code) - 1] = Ins("st", "", "r12", ret[1] - 1)
    /\ code[Len(code)] = Ins("ld", "r12", "", ret[1])
    /\ regqueue[NumRegs] = "r12"
    /\ ret[2] = "r12"

\* the compile-time state of jit2 before any instruction is lowered
GenStart(ops) ==
    [tape2reg |-> NoMap, reg2tape |-> NoMap, regqueue |-> CacheRegs,
     last_reg |-> "None", code |-> <<Ins("enter", "", "", 0)>>,
     labels |-> [n \in 1..Len(ops) |-> 0], ok |-> TRUE, r |-> "None"]

\* the compile-time state of jit2 once it has lowered the first n instructions
RECURSIVE GenAfter(_, _)
GenAfter(ops, n) ==
    IF n = 0 THEN GenStart(ops)
    ELSE Jit2Lower(GenAfter(ops, n - 1), ops[n], n - 1, Len(ops))

\* the offset the generated code is at once the lowering of the n-th
\* instruction of a branch-free program has executed
AfterLowering(n) == IF n < Len(prog) THEN labels[n + 1] ELSE Len(code)

BranchFree(ops) == \A n \in 1..Len(ops) : IsSet(ops[n])

\* C18: in a run of the code jit2 generates for a branch-free program on
\* cells of the tape, once the lowering of a Set has executed every register
\* that the tables then assign to a cell holds what the tape holds in that
\* cell, and the tape the run ends with is the tape the interpreter ends with.
C18_CacheMatchesTape ==
    (/\ mode = "jit2"
     /\ status \in {"running", "halted"}
     /\ BranchFree(prog)
     /\ AllInTape(prog))
    => /\ \A n \in 1..Len(prog) :
            pc = AfterLowering(n) =>
                LET t2r == GenAfter(prog, n).tape2reg IN
                \A t \in DOMAIN t2r : regs[t2r[t]] = tape[t]
       /\ status = "halted" => tape = RunOutput(prog).tape

\* the run of six Sets on six cells, the first of them spilled, has ended
C18_Witness ==
    /\ mode = "jit2"
    /\ status = "halted"
    /\ prog = SpillProg
    /\ regs["r12"] = 1
    /\ tape = [c \in 0..(TapeSize - 1) |-> 1]
    /\ tape2reg[5] = "r12"

\* the elements of a sequence
Range(q) == {q[n] : n \in 1..Len(q)}

\* C19: after any sequence of load_tape calls tape2reg and reg2tape are
\* inverses of each other (no cell in two registers, no register holding two
\* cells), they hold at most five entries, and regqueue is a permutation of
\* the five registers.
C19_TablesInverse ==
    /\ \A t \in DOMAIN tape2reg :
          tape2reg[t] \in DOMAIN reg2tape /\ reg2tape[tape2reg[t]] = t
    /\ \A r \in DOMAIN reg2tape :
          reg2tape[r] \in DOMAIN tape2reg /\ tape2reg[reg2tape[r]] = r
    /\ Cardinality(DOMAIN tape2reg) <= NumRegs
    /\ Cardinality(DOMAIN reg2tape) <= NumRegs
    /\ Len(regqueue) = NumRegs
    /\ Range(regqueue) = Range(CacheRegs)

\* the cache is full, two cells have been evicted and the queue has turned
C19_Witness ==
    /\ Cardinality(DOMAIN tape2reg) = NumRegs
    /\ LoadCount(code) = NumRegs + 2
    /\ regqueue = <<"r14", "r15", "rbp", "r12", "r13">>
    /\ tape2reg[ret[1]] = "r13"

\* the branch at index n names a label outside the program
BadTarget(ops, n) == ops[n + 1].k = "JmpV" /\ ~(Target(n, ops[n + 1].b) < Len(ops))

HasBadTarget(ops) == \E n \in 0..(Len(ops) - 1) : BadTarget(ops, n)

\* C20: a program holding a BranchOnImmediate at index n whose target
\* n - disp - 2 is outside [0, len) makes jit and jit2 abort while generating
\* code, taken or not: the loop never gets past that branch, no generated code
\* runs and no Output Sink call is made; the interpreter runs the program and
\* its run ends when it takes that branch.
C20_BadTargetAborts ==
    /\ []((mode \in {"jit", "jit2"} /\ HasBadTarget(prog)) =>
            /\ status \in {"compiling", "panic"}
            /\ status = "compiling" => \A n \in 0..(i - 1) : ~BadTarget(prog, n)
            /\ pc = 0
            /\ out = <<>>)
    /\ [][(/\ AtOp({"JmpV"})
           /\ BadTarget(prog, i)
           /\ prog[i + 1].a # v)
          => ~InRange(i', prog)]_vars
====
